---- MODULE Spec2Model ----
(***************************************************************************)
(* jq-bridge: the bridge loop (src/main.rs, run_jq), the command           *)
(* dispatcher (src/lib.rs, Command::run), the launch descriptor and its    *)
(* redirection engine (CommandBuilder::apply) and the process registry     *)
(* (Context).                                                              *)
(*                                                                         *)
(* Three specifications share the definitions below:                       *)
(*   Spec         the bridge binary: run_jq driving Command::run;          *)
(*   SpecApply    CommandBuilder::apply (a pub fn of the library) driven   *)
(*                by an arbitrary caller: any descriptor, any base         *)
(*                command (stdio piped or inherited), any spawn closure;   *)
(*   SpecRegistry Context::child and the wait_id / kill_id arms of         *)
(*                Command::run over an arbitrary registry content.         *)
(***************************************************************************)
EXTENDS Integers, Sequences, FiniteSets, TLC

\* ---------------------------------------------------------------- bounds
\* longest pre-existing content of a redirection target
MaxPre == 1
\* most bytes a child writes on one of its output streams
MaxOut == 1
\* most request lines the peer sends
MaxReq == 2
\* number of registry handles in use
NumHandles == 2

\* ------------------------------------------------------------- constants
NONE_EXIT_CODE == 250

\* ---------------------------------------------------------------- Option
None == <<>>
Some(x) == <<x>>

OptBool == {None, Some(TRUE), Some(FALSE)}

\* Option<bool>::is_some_and(identity)
is_true(o) == o # None /\ o[1]

\* Option<bool>::is_none_or(|b| !b)
is_false(o) == o = None \/ ~o[1]

\* ------------------------------------------------------------ filesystem
\* A file is None (no such file) or Some(data), data a sequence of bytes.
\* BadPath stands for a path no open can succeed on (missing directory,
\* permission denied).
BadPath == "bad"
Paths == {"in", "out", "err", BadPath}

Zeros(n) == [i \in 1..n |-> 0]

\* the bytes 1, 2, .., n: what a child has written after n writes
Bytes(n) == [i \in 1..n |-> i]

\* std::fs::OpenOptions::new()
NewOpenOptions ==
    [read |-> FALSE, write |-> FALSE, append |-> FALSE,
     truncate |-> FALSE, create |-> FALSE, create_new |-> FALSE]

\* OpenOptions::get_access_mode / get_creation_mode: the combinations the
\* standard library rejects with InvalidInput before any system call
InvalidOptions(o) ==
    \/ ~o.read /\ ~o.write /\ ~o.append
    \/ ~o.write /\ ~o.append /\ (o.truncate \/ o.create \/ o.create_new)
    \/ o.append /\ o.truncate /\ ~o.create_new

NoHandle == [path |-> BadPath, append |-> FALSE, truncate |-> FALSE, pos |-> 0]

\* OpenOptions::open(path) on filesystem files: the outcome, the filesystem
\* afterwards and the open file (its path, its O_APPEND flag, whether it
\* was opened with O_TRUNC, its offset)
Open(files, path, o) ==
    LET fail(e) == [ok |-> FALSE, err |-> e, fs |-> files, h |-> NoHandle]
        trunc == o.truncate /\ ~o.create_new
    IN  IF InvalidOptions(o) THEN fail("InvalidInput")
        ELSE IF path = BadPath THEN fail("PermissionDenied")
        ELSE IF o.create_new /\ files[path] # None THEN fail("AlreadyExists")
        ELSE IF files[path] = None /\ ~o.create /\ ~o.create_new
             THEN fail("NotFound")
        ELSE [ok |-> TRUE, err |-> "",
              fs |-> [files EXCEPT
                         ![path] = IF @ = None \/ trunc THEN Some(<<>>) ELSE @],
              h |-> [path |-> path, append |-> o.append,
                     truncate |-> trunc, pos |-> 0]]

\* write one byte through an open file: at the end with O_APPEND, at the
\* file's offset otherwise
WriteByte(files, h, b) ==
    LET data == files[h.path][1]
        new == IF h.append \/ h.pos >= Len(data)
               THEN Append(data, b)
               ELSE [data EXCEPT ![h.pos + 1] = b]
    IN  [files EXCEPT ![h.path] = Some(new)]

\* Write::write_all(text) through an open file
RECURSIVE WriteAll(_, _, _)
WriteAll(files, h, text) ==
    IF text = <<>> THEN files
    ELSE WriteAll(WriteByte(files, h, Head(text)),
                  [h EXCEPT !.pos = @ + 1], Tail(text))

\* ----------------------------------------------------------- environment
EnvNames == {"K"}

\* an environment: each name unset (None) or set (Some(value))
Envs(vals) == [EnvNames -> {None} \cup {Some(v) : v \in vals}]

\* std::process::Command's environment changes: a clear flag and, per name,
\* no entry (None), a value to set (Some(Some(v))) or a removal (Some(None))
NewCommandEnv == [clear |-> FALSE, vars |-> [n \in EnvNames |-> None]]

\* Command::envs(map): every key of the map gets a value to set
CmdEnvs(ce, map) ==
    [ce EXCEPT !.vars = [n \in EnvNames |->
                            IF map[n] # None THEN Some(map[n]) ELSE ce.vars[n]]]

\* Command::env_clear(): drops every change made so far and the inheritance
CmdEnvClear(ce) == [clear |-> TRUE, vars |-> [n \in EnvNames |-> None]]

\* Command::env_remove(name) for every name of the set
CmdEnvRemove(ce, names) ==
    [ce EXCEPT !.vars = [n \in EnvNames |->
                            IF n \in names
                            THEN (IF ce.clear THEN None ELSE Some(None))
                            ELSE ce.vars[n]]]

\* the environment a child is spawned with
Capture(ce, parent) ==
    [n \in EnvNames |->
        IF ce.vars[n] # None THEN ce.vars[n][1]
        ELSE IF ce.clear THEN None ELSE parent[n]]

\* CommandBuilder::apply, lines 115-123: envs, then env_clear, then removals
ApplyEnv(b, ce) ==
    LET c1 == CmdEnvs(ce, b.envs)
        c2 == IF is_true(b.env_clear) THEN CmdEnvClear(c1) ELSE c1
    IN  CmdEnvRemove(c2, b.remove_envs)

\* ----------------------------------------------------------------- state
VARIABLES
    fs,             \* the filesystem: [Paths -> None or Some(data)]
    env,            \* the bridge process's own environment
    fs0,            \* the filesystem when the current apply call began
    call,           \* the CommandBuilder of the current apply call
    child,          \* None, or Some(the child process apply's closure spawned)
    invoked,        \* how many times apply's closure f has been called
    jobs,           \* the three copy threads: state and open target file
    wrote,          \* bytes the child has written to its stdout, stderr
    applyPc,        \* where apply is: idle, join, returned, panicked
    joinIdx,        \* the job the join loop waits for (1, 2, 3)
    applyRes,       \* what apply returned: none, ok or err and its message
    pc,             \* where run_jq is: read, run, respond, PeerClosed,
                    \* Terminated (exit was called), Aborted (a panic)
    cur,            \* the Command decoded from the current request line
    result,         \* what Command::run returned for it
    nread,          \* request lines read so far
    peerIn,         \* the response lines flushed to the peer's stdin
    toBuf,          \* the BufWriter `to`: lines written and not yet flushed
    peer,           \* the coprocess: its stdout open, alive, its exit code
    exitCode,       \* the status the bridge process ended with
    abort,          \* the panic that ended the bridge
    out,            \* what the bridge has written to its own stdout
    sub_processors, \* Context.sub_processors: handle -> child
    reg             \* history of the registry: handles taken so far, handles
                    \* taken before the last lookup, the registry before it

applyVars ==
    <<fs0, call, child, invoked, jobs, wrote, applyPc, joinIdx, applyRes>>

bridgeVars ==
    <<pc, cur, result, nread, peerIn, toBuf, peer, exitCode, abort, out,
      sub_processors, reg>>

vars == <<fs, env, applyVars, bridgeVars>>

\* ----------------------------------------------- CommandBuilder::apply
\* struct CommandBuilder (args and current_dir change only the child's argv
\* and working directory, which nothing here observes)
DefaultBuilder ==
    [env_clear |-> None, envs |-> [n \in EnvNames |-> None],
     remove_envs |-> {},
     stdin |-> None, stdout |-> None, stderr |-> None,
     stdout_append |-> None, stderr_append |-> None]

NoJobs == [t \in 1..3 |-> [st |-> "none", file |-> None]]

\* lines 129-131: stdin.as_ref().map(File::open).transpose()
OpenIn(target, files) ==
    IF target = None
    THEN [ok |-> TRUE, err |-> "", fs |-> files, h |-> None]
    ELSE LET r == Open(files, target[1], [NewOpenOptions EXCEPT !.read = TRUE])
         IN  [ok |-> r.ok, err |-> r.err, fs |-> r.fs,
              h |-> IF r.ok THEN Some(r.h) ELSE None]

\* OpenOut with the two flags exchanged
OpenOutSwapped(target, flag, files) ==
    IF target = None
    THEN [ok |-> TRUE, err |-> "", fs |-> files, h |-> None]
    ELSE LET r == Open(files, target[1],
                       [NewOpenOptions EXCEPT !.write = TRUE, !.create = TRUE,
                                              !.truncate = is_true(flag),
                                              !.append = is_false(flag)])
         IN  [ok |-> r.ok, err |-> r.err, fs |-> r.fs,
              h |-> IF r.ok THEN Some(r.h) ELSE None]

\* lines 132-139 and 140-147: write, create, truncate(append.is_false()),
\* append(append.is_true())
OpenOut(target, flag, files) ==
    IF target = None
    THEN [ok |-> TRUE, err |-> "", fs |-> files, h |-> None]
    ELSE LET r == Open(files, target[1],
                       [NewOpenOptions EXCEPT !.write = TRUE, !.create = TRUE,
                                              !.truncate = is_false(flag),
                                              !.append = is_true(flag)])
         IN  [ok |-> r.ok, err |-> r.err, fs |-> r.fs,
              h |-> IF r.ok THEN Some(r.h) ELSE None]

\* Launch with all three targets opened before the first result is looked at
LaunchOpensAll(b, files, parent, piped, spawnOk) ==
    LET ce == ApplyEnv(b, NewCommandEnv)
        r1 == OpenIn(b.stdin, files)
        r2 == OpenOut(b.stdout, b.stdout_append, r1.fs)
        r3 == OpenOut(b.stderr, b.stderr_append, r2.fs)
        failed(r) == [outcome |-> "err", err |-> r.err, fs |-> r3.fs,
                      invoked |-> FALSE, child |-> None,
                      hs |-> <<None, None, None>>]
    IN  IF ~r1.ok THEN failed(r1)
        ELSE IF ~r2.ok THEN failed(r2)
        ELSE IF ~r3.ok THEN failed(r3)
        ELSE IF ~spawnOk
             THEN [outcome |-> "err", err |-> "spawn failed", fs |-> r3.fs,
                   invoked |-> TRUE, child |-> None,
                   hs |-> <<None, None, None>>]
        ELSE [outcome |-> IF piped THEN "started" ELSE "panic", err |-> "",
              fs |-> r3.fs, invoked |-> TRUE,
              child |-> Some([alive |-> TRUE, piped |-> piped,
                              env |-> Capture(ce, parent)]),
              hs |-> <<r1.h, r2.h, r3.h>>]

\* Launch with the closure called before the targets are opened
LaunchSpawnFirst(b, files, parent, piped, spawnOk) ==
    LET ce == ApplyEnv(b, NewCommandEnv)
        r1 == OpenIn(b.stdin, files)
        r2 == OpenOut(b.stdout, b.stdout_append, r1.fs)
        r3 == OpenOut(b.stderr, b.stderr_append, r2.fs)
        kid == IF spawnOk
               THEN Some([alive |-> TRUE, piped |-> piped,
                          env |-> Capture(ce, parent)])
               ELSE None
        failed(r) == [outcome |-> "err", err |-> r.err, fs |-> r.fs,
                      invoked |-> TRUE, child |-> kid,
                      hs |-> <<None, None, None>>]
    IN  IF ~spawnOk
        THEN [outcome |-> "err", err |-> "spawn failed", fs |-> files,
              invoked |-> TRUE, child |-> None, hs |-> <<None, None, None>>]
        ELSE IF ~r1.ok THEN failed(r1)
        ELSE IF ~r2.ok THEN failed(r2)
        ELSE IF ~r3.ok THEN failed(r3)
        ELSE [outcome |-> IF piped THEN "started" ELSE "panic", err |-> "",
              fs |-> r3.fs, invoked |-> TRUE, child |-> kid,
              hs |-> <<r1.h, r2.h, r3.h>>]

\* lines 111-153: configure the command, open the targets in the order
\* stdin, stdout, stderr (each ? returns at the first failure), call the
\* closure f, take the child's three pipe ends (unwrap panics on a stream
\* that is not a pipe). piped: the base command has all three streams set to
\* Stdio::piped(); spawnOk: the closure returns a child.
Launch(b, files, parent, piped, spawnOk) ==
    LET ce == ApplyEnv(b, NewCommandEnv)
        r1 == OpenIn(b.stdin, files)
        r2 == OpenOut(b.stdout, b.stdout_append, r1.fs)
        r3 == OpenOut(b.stderr, b.stderr_append, r2.fs)
        failed(r) == [outcome |-> "err", err |-> r.err, fs |-> r.fs,
                      invoked |-> FALSE, child |-> None,
                      hs |-> <<None, None, None>>]
    IN  IF ~r1.ok THEN failed(r1)
        ELSE IF ~r2.ok THEN failed(r2)
        ELSE IF ~r3.ok THEN failed(r3)
        ELSE IF ~spawnOk
             THEN [outcome |-> "err", err |-> "spawn failed", fs |-> r3.fs,
                   invoked |-> TRUE, child |-> None,
                   hs |-> <<None, None, None>>]
        ELSE [outcome |-> IF piped THEN "started" ELSE "panic", err |-> "",
              fs |-> r3.fs, invoked |-> TRUE,
              child |-> Some([alive |-> TRUE, piped |-> piped,
                              env |-> Capture(ce, parent)]),
              hs |-> <<r1.h, r2.h, r3.h>>]

\* apply up to the start of the three threads (lines 98-165)
ApplyBegin(b, piped, spawnOk) ==
    /\ applyPc = "idle"
    /\ \E l \in {Launch(b, fs, env, piped, spawnOk)} :
           /\ fs' = l.fs
           /\ fs0' = fs
           /\ call' = b
           /\ child' = l.child
           /\ invoked' = invoked + (IF l.invoked THEN 1 ELSE 0)
           /\ wrote' = [t \in 2..3 |-> 0]
           /\ joinIdx' = 1
           /\ jobs' = IF l.outcome = "started"
                      THEN [t \in 1..3 |-> [st |-> "running", file |-> l.hs[t]]]
                      ELSE NoJobs
           /\ applyPc' = CASE l.outcome = "started" -> "join"
                           [] l.outcome = "panic" -> "panicked"
                           [] OTHER -> "returned"
           /\ applyRes' = IF l.outcome = "err"
                          THEN [kind |-> "err", err |-> l.err]
                          ELSE [kind |-> "none", err |-> ""]
    /\ UNCHANGED <<env, bridgeVars>>

\* lines 159-164: io::copy moves one more byte the child wrote on stream t
\* (2: stdout, 3: stderr) into the target file
Copy(t) ==
    /\ jobs[t].st = "running"
    /\ jobs[t].file # None
    /\ child # None /\ child[1].alive
    /\ wrote[t] < MaxOut
    /\ wrote' = [wrote EXCEPT ![t] = @ + 1]
    /\ fs' = WriteByte(fs, jobs[t].file[1], wrote[t] + 1)
    /\ jobs' = [jobs EXCEPT ![t].file = Some([@[1] EXCEPT !.pos = @ + 1])]
    /\ UNCHANGED <<env, fs0, call, child, invoked, applyPc, joinIdx, applyRes>>
    /\ UNCHANGED bridgeVars

\* JobEnds with a thread that has no target waiting for ever
JobEndsNeedsTarget(t) ==
    /\ jobs[t].st = "running"
    /\ jobs[t].file # None
    /\ t = 1 \/ ~child[1].alive
    /\ jobs' = [jobs EXCEPT ![t].st = "ok"]
    /\ UNCHANGED <<fs, env, fs0, call, child, invoked, wrote, applyPc,
                   joinIdx, applyRes>>
    /\ UNCHANGED bridgeVars

\* lines 156-164: a thread ends with Ok: at once when its target was not
\* given (Option::map on None), when the whole file has gone to the child's
\* stdin (thread 1), or at the end of the child's stream (threads 2 and 3),
\* which the child's exit brings
JobEnds(t) ==
    /\ jobs[t].st = "running"
    /\ jobs[t].file = None \/ t = 1 \/ ~child[1].alive
    /\ jobs' = [jobs EXCEPT ![t].st = "ok"]
    /\ UNCHANGED <<fs, env, fs0, call, child, invoked, wrote, applyPc,
                   joinIdx, applyRes>>
    /\ UNCHANGED bridgeVars

\* lines 157, 160, 163: io::copy returns an I/O error (a broken pipe to the
\* child, a failed read or write of the file)
JobFails(t) ==
    /\ jobs[t].st = "running"
    /\ jobs[t].file # None
    /\ jobs' = [jobs EXCEPT ![t].st = "err"]
    /\ UNCHANGED <<fs, env, fs0, call, child, invoked, wrote, applyPc,
                   joinIdx, applyRes>>
    /\ UNCHANGED bridgeVars

\* the child process exits, closing its ends of the pipes
ChildExits ==
    /\ child # None /\ child[1].alive
    /\ applyPc # "panicked"
    /\ child' = Some([child[1] EXCEPT !.alive = FALSE])
    /\ UNCHANGED <<fs, env, fs0, call, invoked, jobs, wrote, applyPc,
                   joinIdx, applyRes>>
    /\ UNCHANGED bridgeVars

\* the io::Error the copy of thread t ended with (1: stdin, 2: stdout,
\* 3: stderr)
CopyError(t) ==
    CASE t = 1 -> "copy failed: stdin"
      [] t = 2 -> "copy failed: stdout"
      [] OTHER -> "copy failed: stderr"

\* Join going through the jobs from the last to the first
JoinReversed ==
    /\ applyPc = "join"
    /\ jobs[4 - joinIdx].st \in {"ok", "err"}
    /\ IF jobs[4 - joinIdx].st = "err"
       THEN /\ applyPc' = "returned"
            /\ applyRes' = [kind |-> "err", err |-> CopyError(4 - joinIdx)]
            /\ UNCHANGED joinIdx
       ELSE IF joinIdx = 3
       THEN /\ applyPc' = "returned"
            /\ applyRes' = [kind |-> "ok", err |-> ""]
            /\ UNCHANGED joinIdx
       ELSE /\ joinIdx' = joinIdx + 1
            /\ UNCHANGED <<applyPc, applyRes>>
    /\ UNCHANGED <<fs, env, fs0, call, child, invoked, jobs, wrote>>
    /\ UNCHANGED bridgeVars

\* lines 167-171: for job in jobs { job.join().unwrap()?; } Ok(child), jobs
\* being the array [stdin thread, stdout thread, stderr thread] of line 155
Join ==
    /\ applyPc = "join"
    /\ jobs[joinIdx].st \in {"ok", "err"}
    /\ IF jobs[joinIdx].st = "err"
       THEN /\ applyPc' = "returned"
            /\ applyRes' = [kind |-> "err", err |-> CopyError(joinIdx)]
            /\ UNCHANGED joinIdx
       ELSE IF joinIdx = 3
       THEN /\ applyPc' = "returned"
            /\ applyRes' = [kind |-> "ok", err |-> ""]
            /\ UNCHANGED joinIdx
       ELSE /\ joinIdx' = joinIdx + 1
            /\ UNCHANGED <<applyPc, applyRes>>
    /\ UNCHANGED <<fs, env, fs0, call, child, invoked, jobs, wrote>>
    /\ UNCHANGED bridgeVars

\* ------------------------------------------------------------ JSON values
\* serde_json::Value, as far as the dispatcher builds it: a type tag, a
\* number, text as bytes (s, e) or as a word (m) after a prefix (p)
JNull == [t |-> "null", n |-> 0, s |-> <<>>, e |-> <<>>, m |-> "", p |-> ""]

JInt(n) == [JNull EXCEPT !.t = "int", !.n = n]

JText(s) == [JNull EXCEPT !.t = "str", !.s = s]

JWord(m) == [JNull EXCEPT !.t = "str", !.m = m]

\* json!({"stdout": .., "stderr": .., "status": ..})
JOutput(so, se, status) ==
    [JNull EXCEPT !.t = "object", !.s = so, !.e = se, !.n = status]

\* What one write puts on the bridge's stdout: the text of a string value as
\* it is (raw), or the serialization of a value (json: a string in quotes
\* with escapes), which the pretty formatter spreads over indented lines
\* for an object and leaves as the compact one for a scalar.
\* stdout().write_all(s.as_bytes())
Raw(v) == [form |-> "raw", indent |-> FALSE, v |-> v]

\* serde_json::to_writer(writer, value)
ToWriter(v) == [form |-> "json", indent |-> FALSE, v |-> v]

\* serde_json::to_writer_pretty(writer, value)
ToWriterPretty(v) == [form |-> "json", indent |-> (v.t = "object"), v |-> v]

\* writer.write_all(b"\n")
NewlineByte == Raw(JText(<<10>>))

\* ------------------------------------------------------------------ Error
NoError == [variant |-> "none", m |-> "", n |-> 0]

IoError(m) == [variant |-> "IoError", m |-> m, n |-> 0]

JsonError(m) == [variant |-> "JsonError", m |-> m, n |-> 0]

InvalidString(m) == [variant |-> "InvalidString", m |-> m, n |-> 0]

InvalidProcessorId(id) == [variant |-> "InvalidProcessorId", m |-> "", n |-> id]

\* the #[error(..)] formats: err.to_string()
ErrorToString(e) ==
    CASE e.variant = "IoError" -> JWord(e.m)
      [] e.variant = "JsonError" -> [JWord(e.m) EXCEPT !.p = "json error: "]
      [] e.variant = "InvalidString" ->
            [JWord(e.m) EXCEPT !.p = "invalid string: "]
      [] e.variant = "InvalidProcessorId" ->
            [JNull EXCEPT !.t = "str", !.p = "invalid processor id: ", !.n = e.n]

\* -------------------------------------------------------------- registry
Handles == 1..NumHandles

\* a registered child: the exit code it ends with (None: killed by a
\* signal) and what it leaves on its stdout and stderr pipes
Children == {[code |-> c, out |-> <<1>>, err |-> <<>>] : c \in {Some(0), None}}

NoChild == [code |-> None, out |-> <<>>, err |-> <<>>]

Registries == UNION {[d -> Children] : d \in SUBSET Handles}

\* a Context that starts with a child registered under handle 1
ContextPrefilled == [h \in {1} |-> [code |-> Some(0), out |-> <<1>>, err |-> <<>>]]

\* Context::default(): #[derive(Default)] gives an empty HashMap
ContextDefault == <<>>

\* Context::child with HashMap::get in place of HashMap::remove
ContextChildKeeps(regs, id) ==
    IF id \in DOMAIN regs
    THEN [ok |-> TRUE, child |-> regs[id], regs |-> regs]
    ELSE [ok |-> FALSE, child |-> NoChild, regs |-> regs]

\* Context::child: self.sub_processors.remove(&id).ok_or(InvalidProcessorId(id))
ContextChild(regs, id) ==
    IF id \in DOMAIN regs
    THEN [ok |-> TRUE, child |-> regs[id],
          regs |-> [h \in DOMAIN regs \ {id} |-> regs[h]]]
    ELSE [ok |-> FALSE, child |-> NoChild, regs |-> regs]

\* status.code().unwrap_or(NONE_EXIT_CODE)
CodeOrNone(code) == IF code = None THEN NONE_EXIT_CODE ELSE code[1]

\* --------------------------------------------------------------- Command
InvalidUtf8 == "invalid-utf8"

NoCmd ==
    [tag |-> "none", path |-> "", text |-> <<>>, must_new |-> None,
     must_exist |-> None, v |-> JNull, name |-> "",
     b |-> DefaultBuilder, id |-> 0, output |-> None, code |-> 0]

\* the four output commands and the values sent with them: a string, a
\* number, an object
OutputTags == {"print", "println", "pretty", "pretty_pipe"}

OutputValues == {JText(<<7>>), JInt(1), JOutput(<<1>>, <<>>, 0)}

\* the text of a write request: empty, or two bytes
WriteTexts == {<<>>, <<5, 6>>}

\* the descriptors the peer sends with a command request
BridgeBuilders ==
    {DefaultBuilder,
     [DefaultBuilder EXCEPT !.stdout = Some("out")],
     [DefaultBuilder EXCEPT !.stdout = Some("out"), !.stdout_append = Some(TRUE)],
     [DefaultBuilder EXCEPT !.stdout = Some("out"), !.stderr = Some(BadPath)],
     [DefaultBuilder EXCEPT !.stdin = Some("in")],
     [DefaultBuilder EXCEPT !.env_clear = Some(TRUE),
                            !.envs = [n \in EnvNames |-> Some("new")]]}

\* the requests the peer sends: these variants of enum Command
Commands ==
    {[NoCmd EXCEPT !.tag = "read", !.path = q] : q \in {"out", BadPath}}
    \cup {[NoCmd EXCEPT !.tag = "write", !.path = q, !.text = x, !.must_new = f] :
             q \in {"out", "err"}, x \in WriteTexts, f \in OptBool}
    \cup {[NoCmd EXCEPT !.tag = "write", !.path = BadPath, !.text = <<5, 6>>]}
    \cup {[NoCmd EXCEPT !.tag = "append", !.path = "err", !.text = <<8>>,
                         !.must_exist = f] : f \in OptBool}
    \cup {[NoCmd EXCEPT !.tag = g, !.v = v] : g \in OutputTags, v \in OutputValues}
    \cup {[NoCmd EXCEPT !.tag = "get_env", !.name = n] : n \in EnvNames}
    \cup {[NoCmd EXCEPT !.tag = "set_env", !.name = n] : n \in EnvNames \cup {""}}
    \cup {[NoCmd EXCEPT !.tag = "remove_env", !.name = n] : n \in EnvNames}
    \cup {[NoCmd EXCEPT !.tag = "system"]}
    \cup {[NoCmd EXCEPT !.tag = "command", !.b = b] : b \in BridgeBuilders}
    \cup {[NoCmd EXCEPT !.tag = "wait_id", !.id = h, !.output = o] :
             h \in Handles, o \in OptBool}
    \cup {[NoCmd EXCEPT !.tag = "kill_id", !.id = h] : h \in Handles}
    \cup {[NoCmd EXCEPT !.tag = "exit", !.code = k] : k \in {0, 7}}

\* what the outside world decides while a command runs: whether the
\* operation on it succeeds (the program starts, the bridge's stdout takes
\* the bytes) and the exit code of a program that ran
Worlds == [ok : BOOLEAN, code : {Some(0), None}]

\* Command::command hands process::Command::new(prog) to apply and spawns it
\* with cmd.spawn(): no Stdio::piped() is set, the streams are inherited
DispatchPiped == FALSE

\* an arm's outcome with the state as it is
Ret(kind, val, err) ==
    [kind |-> kind, val |-> val, err |-> err, fs |-> fs, env |-> env,
     out |-> out, regs |-> sub_processors, child |-> child,
     invoked |-> 0, code |-> 0, panic |-> ""]

\* Ok(value)
Ok(val) == Ret("ok", val, NoError)

\* Err(error), from a ? in the arm
Err(err) == Ret("err", JNull, err)

\* a panic inside the arm
Panic(msg) == [Ret("panic", JNull, NoError) EXCEPT !.panic = msg]

\* the command arm after apply's launch l: ? on apply's error, a panic at
\* the unwrap of a stream that is no pipe
AfterLaunch(l) ==
    [(CASE l.outcome = "err" -> Err(IoError(l.err))
        [] l.outcome = "panic" -> Panic("unwrap on None: child stream not piped")
        [] OTHER -> Ret("started", JNull, NoError))
     EXCEPT !.fs = l.fs, !.child = l.child,
            !.invoked = IF l.invoked THEN 1 ELSE 0]

\* write with the must_new flag ignored
writeAnyway(c) ==
    LET r == Open(fs, c.path,
                  [NewOpenOptions EXCEPT !.write = TRUE, !.create = TRUE,
                                         !.truncate = TRUE])
    IN  IF r.ok THEN [Ok(JNull) EXCEPT !.fs = WriteAll(r.fs, r.h, c.text)]
        ELSE Err(IoError(r.err))

\* lines 249-258: write, create, truncate, create_new(must_new.is_true()),
\* open(path)?, write_all(text)
write(c) ==
    LET r == Open(fs, c.path,
                  [NewOpenOptions EXCEPT !.write = TRUE, !.create = TRUE,
                                         !.truncate = TRUE,
                                         !.create_new = is_true(c.must_new)])
    IN  IF r.ok THEN [Ok(JNull) EXCEPT !.fs = WriteAll(r.fs, r.h, c.text)]
        ELSE Err(IoError(r.err))

\* lines 259-266: append(must_exist.is_false()), create(true), open(path)?,
\* write_all(text). Neither read nor write is set, so with must_exist true
\* no access mode is left and open rejects the options.
append(c) ==
    LET r == Open(fs, c.path,
                  [NewOpenOptions EXCEPT !.append = is_false(c.must_exist),
                                         !.create = TRUE])
    IN  IF r.ok THEN [Ok(JNull) EXCEPT !.fs = WriteAll(r.fs, r.h, c.text)]
        ELSE Err(IoError(r.err))

\* exit returning Null to the loop like any other arm
exitReturns(code) == Ok(JNull)

\* line 427: std::process::exit(code) ends the process inside the arm
exit(code) == [Ret("exit", JNull, NoError) EXCEPT !.code = code]

\* Command::run: the arm of the command c. kind is ok or err (what run
\* returns), panic (the thread panics) or exit (process::exit); the other
\* fields are the state the arm leaves.
CommandRun(c, w) ==
        CASE c.tag = "read" ->
                LET r == Open(fs, c.path, [NewOpenOptions EXCEPT !.read = TRUE])
                IN  IF r.ok THEN Ok(JText(fs[c.path][1]))
                    ELSE Err(IoError(r.err))
          [] c.tag = "write" -> write(c)
          [] c.tag = "append" -> append(c)
          [] c.tag = "print" ->
                IF c.v.t = "str"
                THEN IF w.ok
                     THEN [Ok(JNull) EXCEPT !.out = Append(out, Raw(c.v))]
                     ELSE Err(IoError("BrokenPipe"))
                ELSE IF w.ok
                     THEN [Ok(JNull) EXCEPT !.out = Append(out, ToWriter(c.v))]
                     ELSE Err(JsonError("BrokenPipe"))
          [] c.tag = "println" ->
                IF c.v.t = "str"
                THEN IF w.ok
                     THEN [Ok(JNull) EXCEPT
                              !.out = out \o <<Raw(c.v), NewlineByte>>]
                     ELSE Err(IoError("BrokenPipe"))
                ELSE IF w.ok
                     THEN [Ok(JNull) EXCEPT
                              !.out = out \o <<ToWriter(c.v), NewlineByte>>]
                     ELSE Err(JsonError("BrokenPipe"))
          [] c.tag = "pretty" ->
                IF w.ok
                THEN [Ok(JNull) EXCEPT
                         !.out = out \o <<ToWriterPretty(c.v), NewlineByte>>]
                ELSE Err(JsonError("BrokenPipe"))
          [] c.tag = "pretty_pipe" ->
                IF w.ok
                THEN [Ok(JNull) EXCEPT
                         !.out = out \o <<ToWriter(c.v), NewlineByte>>]
                ELSE Err(JsonError("BrokenPipe"))
          [] c.tag = "get_env" ->
                IF env[c.name] = None THEN Ok(JNull)
                ELSE IF env[c.name][1] = InvalidUtf8
                     THEN Err(InvalidString(InvalidUtf8))
                ELSE Ok(JWord(env[c.name][1]))
          [] c.tag = "set_env" ->
                IF c.name = "" THEN Panic("set_var: invalid name")
                ELSE [Ok(JNull) EXCEPT !.env = [env EXCEPT ![c.name] = Some("new")]]
          [] c.tag = "remove_env" ->
                [Ok(JNull) EXCEPT !.env = [env EXCEPT ![c.name] = None]]
          [] c.tag = "system" ->
                IF w.ok THEN Ok(JInt(CodeOrNone(w.code)))
                ELSE Err(IoError("NotFound"))
          [] c.tag = "command" ->
                AfterLaunch(Launch(c.b, fs, env, DispatchPiped, w.ok))
          [] c.tag = "wait_id" ->
                LET k == ContextChild(sub_processors, c.id)
                IN  IF ~k.ok THEN Err(InvalidProcessorId(c.id))
                    ELSE [(IF is_true(c.output)
                           THEN Ok(JOutput(k.child.out, k.child.err,
                                           CodeOrNone(k.child.code)))
                           ELSE Ok(JInt(CodeOrNone(k.child.code))))
                          EXCEPT !.regs = k.regs]
          [] c.tag = "kill_id" ->
                LET k == ContextChild(sub_processors, c.id)
                IN  IF ~k.ok THEN Err(InvalidProcessorId(c.id))
                    ELSE [Ok(JNull) EXCEPT !.regs = k.regs]
          [] c.tag = "exit" -> exit(c.code)

NoResult == [kind |-> "none", val |-> JNull, err |-> NoError]

\* the registry history after command c, which found the registry before,
\* ended with kind: a lookup that succeeded has taken the handle
RegAfter(c, before, kind) ==
    IF c.tag \in {"wait_id", "kill_id"}
    THEN [taken |-> reg.taken \cup (IF kind = "ok" THEN {c.id} ELSE {}),
          prior |-> reg.taken, before |-> before]
    ELSE reg

\* ------------------------------------------------------- run_jq (main.rs)
\* what from.lines() yields: a line that decodes as a Command, a line that
\* does not, or an error (a line that is not UTF-8)
Lines ==
    {[kind |-> "command", cmd |-> c] : c \in Commands}
    \cup {[kind |-> "malformed", cmd |-> NoCmd], [kind |-> "unreadable", cmd |-> NoCmd]}

\* AfterLine with a line that yields no Command dropped and the loop going on
AfterLineSkips(kind) == IF kind = "command" THEN "run" ELSE "read"

\* lines 55-58: line.unwrap() and from_str(&buf).expect("invalid command"):
\* the loop body goes on to cmd.run only with a decoded Command, both panic
\* otherwise
AfterLine(kind) == IF kind = "command" THEN "run" ELSE "Aborted"

\* lines 54-58: the next line of the peer's stdout, unwrapped and decoded
ReadLine ==
    /\ pc = "read"
    /\ peer.alive /\ peer.out
    /\ nread < MaxReq
    /\ \E l \in Lines :
         /\ nread' = nread + 1
         /\ cur' = l.cmd
         /\ pc' = AfterLine(l.kind)
         /\ abort' = CASE l.kind = "command" -> abort
                       [] l.kind = "malformed" -> "expect: invalid command"
                       [] OTHER -> "unwrap: read error"
    /\ UNCHANGED <<fs, env, applyVars, result, peerIn, toBuf, peer, exitCode,
                   out, sub_processors, reg>>

\* line 54: from.lines() ends at the end of the peer's stdout
ReadEof ==
    /\ pc = "read"
    /\ ~peer.out
    /\ pc' = "PeerClosed"
    /\ UNCHANGED <<fs, env, applyVars, cur, result, nread, peerIn, toBuf, peer,
                   exitCode, abort, out, sub_processors, reg>>

\* line 59: cmd.run(ctx). The arm returns (respond), panics (Aborted) or
\* calls exit (Terminated); the command arm would go on to apply's join loop
\* (join) only with piped streams, which the dispatch never sets.
Run ==
    /\ pc = "run"
    /\ \E w \in Worlds : \E r \in {CommandRun(cur, w)} :
             /\ fs' = r.fs
             /\ env' = r.env
             /\ out' = r.out
             /\ sub_processors' = r.regs
             /\ reg' = RegAfter(cur, sub_processors, r.kind)
             /\ child' = r.child
             /\ invoked' = invoked + r.invoked
             /\ call' = IF cur.tag = "command" THEN cur.b ELSE call
             /\ fs0' = IF cur.tag = "command" THEN fs ELSE fs0
             /\ result' = [kind |-> r.kind, val |-> r.val, err |-> r.err]
             /\ pc' = CASE r.kind \in {"ok", "err"} -> "respond"
                        [] r.kind = "panic" -> "Aborted"
                        [] r.kind = "exit" -> "Terminated"
                        [] OTHER -> "join"
             /\ abort' = IF r.kind = "panic" THEN r.panic ELSE abort
             /\ exitCode' = IF r.kind = "exit" THEN Some(r.code) ELSE exitCode
    /\ UNCHANGED <<jobs, wrote, applyPc, joinIdx, applyRes, cur, nread, peerIn,
                   toBuf, peer>>

\* Envelope with every outcome wrapped as ok
EnvelopeAlwaysOk(r) == [kind |-> "ok", val |-> r.val]

\* lines 60-61: .map(|value| json!({"ok": value}))
\*              .unwrap_or_else(|err| json!({"err": err.to_string()}))
Envelope(r) ==
    IF r.kind = "ok" THEN [kind |-> "ok", val |-> r.val]
    ELSE [kind |-> "err", val |-> ErrorToString(r.err)]

\* flush leaving the buffered lines in the buffer
FlushKeeps(buf, pipe) == [buf |-> buf, pipe |-> pipe]

\* line 64: to.flush() writes all the BufWriter holds into the pipe
Flush(buf, pipe) == [buf |-> <<>>, pipe |-> pipe \o buf]

\* lines 62-64: the envelope and a newline go into the BufWriter, flush
\* writes them to the peer's stdin; the unwraps panic when the pipe is
\* broken (the peer has exited). Each line is kept with the request it
\* answers and the result it was made from.
Respond ==
    /\ pc = "respond"
    /\ LET line == [req |-> nread, of |-> result, env |-> Envelope(result)]
       IN  IF peer.alive
           THEN /\ peerIn' = Flush(Append(toBuf, line), peerIn).pipe
                /\ toBuf' = Flush(Append(toBuf, line), peerIn).buf
                /\ pc' = "read"
                /\ abort' = abort
           ELSE /\ toBuf' = Append(toBuf, line)
                /\ pc' = "Aborted"
                /\ abort' = "unwrap: broken pipe"
                /\ UNCHANGED peerIn
    /\ cur' = NoCmd
    /\ result' = NoResult
    /\ UNCHANGED <<fs, env, applyVars, nread, peer, exitCode, out,
                   sub_processors, reg>>

\* ExitStatus of the peer with every status reported as 0
PeerStatusZero(code) == 0

\* lines 67-70: jq_coproc.wait().unwrap().code().unwrap_or(NONE_EXIT_CODE)
PeerStatus(code) == CodeOrNone(code)

\* lines 67-71: after the loop, wait for the peer and exit with its code
WaitPeer ==
    /\ pc = "PeerClosed"
    /\ ~peer.alive
    /\ pc' = "Terminated"
    /\ exitCode' = Some(PeerStatus(peer.code))
    /\ UNCHANGED <<fs, env, applyVars, cur, result, nread, peerIn, toBuf, peer,
                   abort, out, sub_processors, reg>>

BridgeRunning == pc \notin {"Terminated", "Aborted"}

\* the peer closes its stdout and keeps running
PeerCloses ==
    /\ BridgeRunning
    /\ peer.alive /\ peer.out
    /\ peer' = [peer EXCEPT !.out = FALSE]
    /\ UNCHANGED <<fs, env, applyVars, pc, cur, result, nread, peerIn, toBuf,
                   exitCode, abort, out, sub_processors, reg>>

PeerCodes == {Some(0), Some(3), None}

\* the peer exits with a code, or is killed by a signal (None)
PeerExits(code) ==
    /\ BridgeRunning
    /\ peer.alive
    /\ peer' = [out |-> FALSE, alive |-> FALSE, code |-> code]
    /\ UNCHANGED <<fs, env, applyVars, pc, cur, result, nread, peerIn, toBuf,
                   exitCode, abort, out, sub_processors, reg>>

\* the apply variables outside a call
ApplyIdle ==
    /\ fs0 = fs
    /\ call = DefaultBuilder
    /\ child = None
    /\ invoked = 0
    /\ jobs = NoJobs
    /\ wrote = [t \in 2..3 |-> 0]
    /\ applyPc = "idle"
    /\ joinIdx = 1
    /\ applyRes = [kind |-> "none", err |-> ""]

\* lines 42-52: Context::default(), the coprocess spawned, its pipes wrapped
BridgeStart ==
    /\ pc = "read"
    /\ cur = NoCmd
    /\ result = NoResult
    /\ nread = 0
    /\ peerIn = <<>>
    /\ toBuf = <<>>
    /\ peer = [out |-> TRUE, alive |-> TRUE, code |-> None]
    /\ exitCode = None
    /\ abort = ""
    /\ out = <<>>
    /\ sub_processors = ContextDefault
    /\ reg = [taken |-> {}, prior |-> {}, before |-> <<>>]

Init ==
    /\ fs = [q \in Paths |-> IF q \in {"in", "out"} THEN Some(<<0>>) ELSE None]
    /\ env \in Envs({"old", InvalidUtf8})
    /\ ApplyIdle
    /\ BridgeStart

Next ==
    \/ ReadLine
    \/ ReadEof
    \/ Run
    \/ Respond
    \/ WaitPeer
    \/ PeerCloses
    \/ \E code \in PeerCodes : PeerExits(code)

Spec == Init /\ [][Next]_vars

\* ---------------------------------------------- specification SpecRegistry
RegistryCommands ==
    {c \in Commands : c.tag \in {"wait_id", "kill_id"}}

\* Command::run on a wait_id or kill_id request (lines 401-419)
RegistryCall(c) ==
    /\ \E w \in Worlds : \E r \in {CommandRun(c, w)} :
         /\ cur' = c
         /\ result' = [kind |-> r.kind, val |-> r.val, err |-> r.err]
         /\ sub_processors' = r.regs
         /\ reg' = RegAfter(c, sub_processors, r.kind)
    /\ UNCHANGED <<fs, env, applyVars, pc, nread, peerIn, toBuf, peer,
                   exitCode, abort, out>>

InitRegistry ==
    /\ fs = [q \in Paths |-> None]
    /\ env = [n \in EnvNames |-> None]
    /\ ApplyIdle
    /\ pc = "run"
    /\ cur = NoCmd
    /\ result = NoResult
    /\ nread = 0
    /\ peerIn = <<>>
    /\ toBuf = <<>>
    /\ peer = [out |-> TRUE, alive |-> TRUE, code |-> None]
    /\ exitCode = None
    /\ abort = ""
    /\ out = <<>>
    /\ sub_processors \in Registries
    /\ reg = [taken |-> {}, prior |-> {}, before |-> sub_processors]

NextRegistry == \E c \in RegistryCommands : RegistryCall(c)

SpecRegistry == InitRegistry /\ [][NextRegistry]_vars

\* ------------------------------------------------ specification SpecApply
Targets(p) == {None, Some(p), Some(BadPath)}

\* a stream's target and append flag: no target, an unopenable path, or the
\* stream's own file with each value of the flag
OutTargets(p) ==
    {<<None, None>>, <<Some(BadPath), None>>} \cup
    {<<Some(p), a>> : a \in OptBool}

\* descriptors that redirect
RedirBuilders ==
    {[DefaultBuilder EXCEPT !.stdin = i, !.stdout = o[1], !.stderr = e[1],
                            !.stdout_append = o[2], !.stderr_append = e[2]] :
        i \in Targets("in"), o \in OutTargets("out"), e \in OutTargets("err")}

\* descriptors that change the environment
EnvBuilders ==
    {[DefaultBuilder EXCEPT !.env_clear = c, !.envs = m, !.remove_envs = r] :
        c \in OptBool, m \in Envs({"new"}), r \in SUBSET EnvNames}

PreContents == {None} \cup {Some(Zeros(n)) : n \in 0..MaxPre}

InitApply ==
    /\ fs \in {[p \in Paths |-> CASE p = "in" -> i
                                  [] p = "out" -> o
                                  [] p = "err" -> e
                                  [] OTHER -> None] :
                  i \in {None, Some(<<0>>)},
                  o \in PreContents, e \in PreContents}
    /\ env \in Envs({"old"})
    /\ ApplyIdle
    /\ BridgeStart

NextApply ==
    \/ \E b \in RedirBuilders \cup EnvBuilders, piped \in BOOLEAN,
          spawnOk \in BOOLEAN : ApplyBegin(b, piped, spawnOk)
    \/ \E t \in 2..3 : Copy(t)
    \/ \E t \in 1..3 : JobEnds(t)
    \/ \E t \in 1..3 : JobFails(t)
    \/ ChildExits
    \/ Join

SpecApply == InitApply /\ [][NextApply]_vars

\* The threads of lines 155-169 are operating-system threads, each scheduled
\* whatever the others do: a copy thread that has nothing to copy, or whose
\* child has exited (end of file on the child's stream, a closed pipe to the
\* child's stdin), gets to its end, and the thread in the join loop goes on
\* once the job it waits for is over. Nothing is assumed about a copy whose
\* child is still running, nor about the child exiting.
FairApply ==
    /\ \A t \in 1..3 :
          WF_vars(JobEnds(t) /\ (jobs[t].file = None \/ ~child[1].alive))
    /\ WF_vars(Join)

\* the calls made from a parent with an empty environment (the threads do
\* not look at it)
InitApplyLive == InitApply /\ env = [n \in EnvNames |-> None]

SpecApplyLive == InitApplyLive /\ [][NextApply]_vars /\ FairApply

\* ------------------------------------------------------ claims: SpecApply
\* the environment the descriptor asks for, name by name: cleared when
\* env_clear is true, then every name of envs set, then every name of
\* remove_envs removed
ClaimedEnv(b, parent) ==
    [n \in EnvNames |->
        IF n \in b.remove_envs THEN None
        ELSE IF b.envs[n] # None THEN b.envs[n]
        ELSE IF is_true(b.env_clear) THEN None
        ELSE parent[n]]

\* C6: the child's environment is the result of: optional full clear, then
\* setting every name of envs, then removing every name of remove_envs; with
\* env_clear true, envs = {K: V} and K not removed, the child sees K = V.
C6_EnvClearThenSet ==
    child # None => child[1].env = ClaimedEnv(call, env)

\* C7: when apply has returned (the child or an error), no redirection is
\* still in flight: none of the copy threads that has a file to copy is
\* still running.
C7_NoCopyInFlightAtReturn ==
    applyPc = "returned" =>
        \A t \in 1..3 : ~(jobs[t].st = "running" /\ jobs[t].file # None)

\* opening one of the call's targets fails: a path that cannot be opened, or
\* a stdin file that does not exist
SomeOpenFails ==
    \/ call.stdin # None /\ (call.stdin[1] = BadPath \/ fs0[call.stdin[1]] = None)
    \/ call.stdout = Some(BadPath)
    \/ call.stderr = Some(BadPath)

\* C8: when opening the stdin, stdout or stderr target fails, apply returns
\* that I/O error and the spawn closure is never called: no child exists.
C8_OpenFailsBeforeSpawn ==
    (applyPc # "idle" /\ SomeOpenFails) =>
        /\ applyPc = "returned"
        /\ applyRes.kind = "err"
        /\ applyRes.err \in {"PermissionDenied", "NotFound"}
        /\ invoked = 0
        /\ child = None

\* a call whose stdout target was opened and whose stderr target then failed
\* to open has returned the error without a child
C8_Witness ==
    /\ applyPc = "returned"
    /\ call.stdout = Some("out") /\ call.stderr = Some(BadPath)
    /\ applyRes.kind = "err"
    /\ invoked = 0

Target(t) == IF t = 2 THEN call.stdout ELSE call.stderr

AppendFlag(t) == IF t = 2 THEN call.stdout_append ELSE call.stderr_append

\* what the target of stream t held when the call began
PreExisting(t) ==
    IF fs0[Target(t)[1]] = None THEN <<>> ELSE fs0[Target(t)[1]][1]

C16_FirstFailingInOrder ==
    /\ (applyPc = "returned" /\ applyRes.kind = "err" /\ jobs # NoJobs) =>
          \E t \in 1..3 :
              /\ jobs[t].st = "err"
              /\ \A u \in 1..(t - 1) : jobs[u].st = "ok"
              /\ applyRes.err = CopyError(t)
    /\ (applyPc = "returned" /\ applyRes.kind = "ok") =>
          /\ \A t \in 1..3 : jobs[t].st = "ok"
          /\ child # None

\* apply has returned the error of the stdout copy although the stderr copy
\* failed as well; the stdin copy had ended with Ok
C16_Witness ==
    /\ applyPc = "returned"
    /\ applyRes = [kind |-> "err", err |-> CopyError(2)]
    /\ jobs[1].st = "ok" /\ jobs[1].file # None
    /\ jobs[2].st = "err" /\ jobs[3].st = "err"

\* opening the call's stdin, stdout, stderr target fails
StdinFails ==
    call.stdin # None /\ (call.stdin[1] = BadPath \/ fs0[call.stdin[1]] = None)

StdoutFails == call.stdout = Some(BadPath)

StderrFails == call.stderr = Some(BadPath)

\* C19: the targets are opened in the order stdin, stdout, stderr and the
\* call ends at the first open that fails, with that open's error and
\* without a child: when stdin fails no file has changed; when stdout
\* fails the stderr target is as it was before the call (not created, not
\* truncated); only targets before the failing one can differ from before.
C19_OpenOrderStopsAtFirstFailure ==
    applyPc # "idle" =>
        /\ StdinFails =>
              /\ fs = fs0
              /\ applyRes = [kind |-> "err",
                             err |-> IF call.stdin[1] = BadPath
                                     THEN "PermissionDenied" ELSE "NotFound"]
              /\ child = None /\ invoked = 0
        /\ (~StdinFails /\ StdoutFails) =>
              /\ fs["err"] = fs0["err"] /\ fs["in"] = fs0["in"]
              /\ applyRes = [kind |-> "err", err |-> "PermissionDenied"]
              /\ child = None /\ invoked = 0
        /\ (~StdinFails /\ ~StdoutFails /\ StderrFails) =>
              /\ fs["in"] = fs0["in"]
              /\ applyRes = [kind |-> "err", err |-> "PermissionDenied"]
              /\ child = None /\ invoked = 0

\* the stdin target was opened, the stdout target could not be: the call
\* has returned and the stderr target, a file with content that the open
\* would have truncated, still holds it
C19_Witness ==
    /\ applyPc = "returned"
    /\ call.stdin = Some("in") /\ fs0["in"] # None
    /\ call.stdout = Some(BadPath)
    /\ call.stderr = Some("err") /\ call.stderr_append # Some(TRUE)
    /\ fs0["err"] = Some(Zeros(MaxPre))
    /\ fs["err"] = Some(Zeros(MaxPre))
    /\ applyRes.kind = "err"

\* ------------------------------------------------- claims: SpecApplyLive
\* C20: for every combination of given and absent targets, once the child
\* has exited while apply is in its join loop, all three threads come to an
\* end and apply returns; a thread whose target was not given ends without
\* waiting for the child, and never with an error.
C20_JoinTerminates ==
    /\ (applyPc = "join" /\ ~child[1].alive) ~>
          (applyPc = "returned" /\ \A t \in 1..3 : jobs[t].st \in {"ok", "err"})
    /\ \A t \in 1..3 :
          (jobs[t].st = "running" /\ jobs[t].file = None) ~> jobs[t].st = "ok"
    /\ [][\A t \in 1..3 : jobs[t].file = None => jobs'[t].st # "err"]_vars

\* apply has returned the child after the child exited: the stdout copy had
\* a target and copied the child's output, the stdin and stderr threads
\* had none
C20_Witness ==
    /\ applyPc = "returned" /\ applyRes.kind = "ok"
    /\ child # None /\ ~child[1].alive
    /\ call.stdin = None /\ call.stdout = Some("out") /\ call.stderr = None
    /\ \A t \in 1..3 : jobs[t].st = "ok"
    /\ wrote[2] = MaxOut

\* --------------------------------------------------- claims: SpecRegistry
\* C3: a handle that wait_id or kill_id has taken is rejected by every later
\* wait_id / kill_id with the invalid-handle error; so is a handle that was
\* never registered, and the registry is left as it was.
C3_HandleConsumed ==
    /\ reg.taken \cap DOMAIN sub_processors = {}
    /\ (/\ cur.tag \in {"wait_id", "kill_id"}
        /\ cur.id \in reg.prior \/ cur.id \notin DOMAIN reg.before) =>
            /\ result.kind = "err"
            /\ result.err = InvalidProcessorId(cur.id)
            /\ sub_processors = reg.before

\* a second lookup of a handle an earlier wait_id / kill_id took has failed
C3_Witness ==
    /\ cur.tag \in {"wait_id", "kill_id"}
    /\ cur.id \in reg.prior
    /\ result.kind = "err"
    /\ result.err = InvalidProcessorId(cur.id)

\* ----------------------------------------------------------- claims: Spec
ProtocolFailures ==
    {"expect: invalid command", "unwrap: read error", "unwrap: broken pipe"}

\* C1: every request line that decodes as a Command other than exit gets
\* exactly one response line, written after the command has run and before
\* the next line is read, the responses in the order of the requests: when
\* the bridge reads again, the i-th response answers the i-th request and
\* none is missing; a decoded command never ends the bridge unanswered.
C1_OneResponsePerRequest ==
    /\ \A i \in 1..Len(peerIn) : peerIn[i].req = i
    /\ pc \in {"read", "PeerClosed"} => Len(peerIn) = nread
    /\ pc = "Aborted" => abort \in ProtocolFailures

\* C2: when Command::run returns an error, the bridge writes {err: message}
\* for that command and goes back to reading (the one other way out of the
\* response is the protocol-level failure of the write itself, the peer
\* being gone); an error of run never ends the bridge.
C2_ErrorsAnswered ==
    /\ [](result.kind = "err" => pc = "respond")
    /\ [][(pc = "respond" /\ result.kind = "err" /\ pc' # pc) =>
            IF peer.alive
            THEN /\ pc' = "read"
                 /\ peerIn' = Append(peerIn,
                        [req |-> nread, of |-> result,
                         env |-> [kind |-> "err",
                                  val |-> ErrorToString(result.err)]])
            ELSE pc' = "Aborted" /\ abort' = "unwrap: broken pipe"]_vars

\* two commands failed, with an I/O error and with an invalid handle, both
\* were answered with err and the bridge reads on
C2_Witness ==
    /\ pc = "read"
    /\ Len(peerIn) = 2
    /\ peerIn[1].of.err.variant = "IoError"
    /\ peerIn[1].env.kind = "err"
    /\ peerIn[2].of.err.variant = "InvalidProcessorId"
    /\ peerIn[2].env = [kind |-> "err",
                        val |-> ErrorToString(InvalidProcessorId(peerIn[2].of.err.n))]

\* C4: a command request whose launch succeeded (targets opened, child
\* spawned) waits for the child and returns ok with its stdout, its stderr
\* and its exit code.
C4_CommandReturnsOutput ==
    (cur.tag = "command" /\ child # None /\ pc # "run") =>
        /\ pc = "respond"
        /\ result.kind = "ok"
        /\ result.val.t = "object"

\* C5: the child the command dispatch hands to apply has stdin, stdout and
\* stderr as pipes, so taking the three pipe ends never panics.
C5_ChildStreamsPiped ==
    /\ child # None => child[1].piped
    /\ abort # "unwrap on None: child stream not piped"

\* C10: after the end of the peer's stdout the bridge reads and dispatches
\* nothing more, waits for the peer to exit and then ends with the peer's
\* exit code, or with 250 when the peer was killed by a signal.
C10_ShutdownMirrorsPeer ==
    [][pc = "PeerClosed" =>
        /\ UNCHANGED <<cur, result, nread, peerIn, fs, env, out, sub_processors>>
        /\ pc' \in {"PeerClosed", "Terminated"}
        /\ pc' = "Terminated" =>
            /\ ~peer.alive
            /\ exitCode' = Some(IF peer.code = None THEN 250 ELSE peer.code[1])]_vars

\* the bridge ended with 250 after the peer, having sent requests, closed
\* its stdout and was killed by a signal
C10_Witness ==
    /\ pc = "Terminated"
    /\ result.kind # "exit"
    /\ nread > 0
    /\ ~peer.alive /\ peer.code = None
    /\ exitCode = Some(250)

\* C11: a request line that yields no Command (it does not decode, or it
\* cannot be read as text) ends the bridge abnormally: nothing is dispatched
\* for it (no effect on files, environment, stdout, registry, no result), no
\* response is written for it, and once aborted the bridge takes no further
\* step, so no later line is read.
C11_MalformedLineFatal ==
    /\ [][(pc = "read" /\ nread' = nread + 1 /\ cur'.tag = "none") =>
            /\ pc' = "Aborted"
            /\ abort' \in {"expect: invalid command", "unwrap: read error"}
            /\ UNCHANGED <<fs, env, out, sub_processors, result, child,
                           invoked, peerIn, toBuf>>]_vars
    /\ [][pc # "Aborted"]_vars

\* the first request was answered, the second line did not decode: the
\* bridge has aborted with one response written, the peer still there to
\* send more
C11_Witness ==
    /\ pc = "Aborted"
    /\ abort = "expect: invalid command"
    /\ nread = 2 /\ Len(peerIn) = 1 /\ toBuf = <<>>
    /\ peer.alive /\ peer.out

\* C12: running exit with code N ends the bridge with status N in that very
\* step: no response line is written or buffered for it, the peer is not
\* waited for (it may still be running), and a terminated bridge takes no
\* further step, so no later request is read or dispatched.
C12_ExitTerminates ==
    /\ [][(pc = "run" /\ cur.tag = "exit" /\ pc' # pc) =>
            /\ pc' = "Terminated"
            /\ exitCode' = Some(cur.code)
            /\ UNCHANGED <<peerIn, toBuf, nread, peer, fs, env, out>>]_vars
    /\ [][pc # "Terminated"]_vars

\* the second request was exit 7: the bridge has ended with status 7, one
\* response written (for the first request), the peer still running with
\* its stdout open
C12_Witness ==
    /\ pc = "Terminated"
    /\ cur.tag = "exit" /\ cur.code = 7
    /\ exitCode = Some(7)
    /\ nread = 2 /\ Len(peerIn) = 1 /\ toBuf = <<>>
    /\ peer.alive /\ peer.out

\* C13: on a path that can be opened, write with must_new true fails with an
\* error and leaves the file as it was when the path exists, and creates
\* the file holding exactly the text when it does not; write with the flag
\* absent or false returns ok and the file then holds exactly the text,
\* whether it existed or not.
C13_WriteMustNew ==
    [][(pc = "run" /\ cur.tag = "write" /\ cur.path # BadPath /\ pc' # pc) =>
          /\ pc' = "respond"
          /\ IF is_true(cur.must_new) /\ fs[cur.path] # None
             THEN /\ result'.kind = "err"
                  /\ result'.err = IoError("AlreadyExists")
                  /\ fs' = fs
             ELSE /\ result' = [kind |-> "ok", val |-> JNull, err |-> NoError]
                  /\ fs' = [fs EXCEPT ![cur.path] = Some(cur.text)]]_vars

\* the first write created the file with its text, a second write to it
\* with must_new true has failed and the text of the first is still there
C13_Witness ==
    /\ pc = "respond" /\ nread = 2
    /\ cur.tag = "write" /\ cur.path = "err" /\ cur.must_new = Some(TRUE)
    /\ cur.text = <<>>
    /\ result.kind = "err" /\ result.err = IoError("AlreadyExists")
    /\ peerIn[1].of.kind = "ok"
    /\ fs["err"] = Some(<<5, 6>>)

\* C14: on a path that does not exist, append with the request's optional
\* boolean absent or false fails with an error and creates nothing; with
\* the boolean true it returns ok and creates the file, which then holds
\* exactly the appended text.
C14_AppendMayCreate ==
    [][(pc = "run" /\ cur.tag = "append" /\ fs[cur.path] = None /\ pc' # pc) =>
          IF is_true(cur.must_exist)
          THEN /\ result'.kind = "ok"
               /\ fs' = [fs EXCEPT ![cur.path] = Some(cur.text)]
          ELSE /\ result'.kind = "err"
               /\ fs' = fs]_vars

\* what the four output commands are said to write for the value v
ClaimedOutput(tag, v) ==
    <<IF v.t = "str" THEN Raw(v)
      ELSE IF tag = "pretty" THEN ToWriterPretty(v) ELSE ToWriter(v)>>
    \o (IF tag = "print" THEN <<>> ELSE <<NewlineByte>>)

\* C15: each of print, println, pretty and pretty_pipe that returns ok has
\* written to the bridge's stdout: the raw text of a string value, the
\* serialization of any other value (indented for pretty, compact for the
\* others), then one newline for println, pretty and pretty_pipe and none
\* for print.
C15_OutputFormats ==
    [][(pc = "run" /\ cur.tag \in OutputTags /\ pc' # pc /\ result'.kind = "ok")
          => out' = out \o ClaimedOutput(cur.tag, cur.v)]_vars

\* C17: whenever the bridge is at the read of the next request line, the
\* write buffer holds nothing and the peer's stdin has received the
\* response to every request read so far, so the peer never waits for a
\* response that sits in the bridge's buffer.
C17_FlushedBeforeRead ==
    pc = "read" => toBuf = <<>> /\ Len(peerIn) = nread

\* two requests have been answered and the bridge reads again with an
\* empty buffer while the peer is still there
C17_Witness ==
    /\ pc = "read" /\ nread = 2
    /\ Len(peerIn) = 2 /\ peerIn[2].req = 2
    /\ toBuf = <<>>
    /\ peer.alive

\* C18: the registry is empty in every state of the bridge, and every
\* wait_id and kill_id request that has run, for every handle and after any
\* earlier requests, has returned at once with the invalid-handle error, to
\* be answered with {err: "invalid processor id: <id>"}; no child was
\* waited for or killed.
C18_RegistryAlwaysEmpty ==
    /\ sub_processors = <<>>
    /\ (cur.tag \in {"wait_id", "kill_id"} /\ pc # "run") =>
          /\ pc = "respond"
          /\ result = [kind |-> "err", val |-> JNull,
                       err |-> InvalidProcessorId(cur.id)]
          /\ Envelope(result) =
                [kind |-> "err",
                 val |-> [JNull EXCEPT !.t = "str",
                                       !.p = "invalid processor id: ",
                                       !.n = cur.id]]

\* after a first request that succeeded, a wait_id for the last handle has
\* returned the invalid-handle error
C18_Witness ==
    /\ pc = "respond" /\ nread = 2
    /\ peerIn[1].of.kind = "ok"
    /\ cur.tag = "wait_id" /\ cur.id = NumHandles /\ cur.output = Some(TRUE)
    /\ result.err = InvalidProcessorId(NumHandles)
    /\ sub_processors = <<>>
====
